---- MODULE Spec2Model ----
(***************************************************************************)
(* Economy ledger and collection store of the card gacha server            *)
(* (src/server.js).  The file holds two variants of the same server: one   *)
(* on Postgres (lines 1-472) and one on SQLite (lines 473-921).  Every     *)
(* request handler is an async function: each `await` on a store statement *)
(* is a point where the handlers of other requests may run, so a handler   *)
(* is modelled as one action per store statement, with the handler's local *)
(* variables kept in rq[r] and its position in pc[r].                      *)
(***************************************************************************)
EXTENDS Integers, Sequences, FiniteSets, TLC

\* ------------------------------------------------------------------ bounds
MaxReq   == 2        \* request slots: requests that can be in flight at once
MaxRequests == 3     \* requests started in one run
MaxClock == 2        \* clock steps in one run
MaxClockSeq == 4     \* clock steps in one run without overlapping requests
StepMs   == 200000   \* one clock step: 3 min 20 s, two thirds of a tick
T0       == 1000000  \* Date.now() when the accounts were created

\* ------------------------------------------------------- program constants
PAY_AMOUNT   == 10
PAY_EVERY_MS == 5 * 60 * 1000
COST_ONE     == 5

Players  == {1, 2}
Variants == {"pg", "sqlite"}
Reqs     == 1..MaxReq

\* The cards drawCard() can resolve to: name, set and image reference.
Cards ==
  { [name |-> "Pikachu", set |-> "Base", image |-> "p.png"],
    [name |-> "Eevee",   set |-> "Jungle", image |-> "e.png"] }
NoCard == [name |-> "", set |-> "", image |-> ""]

\* const idKey = `${c.name}__${c.set}__${c.image}`
IdKeyOf(c) == c.name \o "__" \o c.set \o "__" \o c.image
IdKeys == {IdKeyOf(c) : c \in Cards}

\* Math.random() in hundredths: the draws the model feeds to the lottery.
GradeDraws == {1, 60}
MintDraws  == {10, 80}

VARIABLES
  variant,     \* which of the two servers of src/server.js runs
  now,         \* Date.now()
  money,       \* users.money, by user id
  lastPay,     \* users.lastPay, by user id
  collection,  \* table collection: (user_id, idKey) -> row
  pulls,       \* table pulls, by user id, in insertion order
  pc,          \* position of each request handler
  rq,          \* local variables of each request handler
  nReq,        \* requests started so far
  granted,     \* history: currency granted by accrual, by user id
  last0,       \* history: users.lastPay in the initial state
  removed,     \* history: copies removed from a collection row by sales
  accruedAt,   \* history: Date.now() of the last applyPayForUser call that
               \* returned, by user id (0: none yet)
  lot,         \* the grading lottery sampled draw by draw (see Roll)
  dc,          \* one call of drawCard() followed step by step, with the
               \* offlineCards and FORCE_OFFLINE it runs under
  friends,     \* Friend Relation: (player, friend) -> creation timestamp
  fq,          \* the last friend request and its answer
  queue        \* one call of runQueue() of the image downloader, followed
               \* step by step

\* The tables of the store, the clock and the request handlers.
storeVars == <<variant, now, money, lastPay, collection, pulls, pc, rq, nReq,
               granted, last0, removed, accruedAt>>

\* What the request handlers of the store leave alone.
engineVars == <<lot, dc, friends, fq, queue>>

vars == <<variant, now, money, lastPay, collection, pulls, pc, rq, nReq,
          granted, last0, removed, accruedAt, lot, dc, friends, fq, queue>>

\* ---------------------------------------------------------------- helpers
Max(a, b) == IF a > b THEN a ELSE b

\* The locals of a handler that has not started.
NoRq ==
  [op |-> "none", user |-> 0, key |-> "", last |-> 0, now |-> 0, ticks |-> 0,
   draw |-> "none", card |-> NoCard, grade |-> 0, mint |-> 0, at |-> 0,
   existing |-> FALSE, count |-> 0, status |-> 0,
   net |-> 0, npull |-> 0, merged |-> FALSE]

\* res.status(s).json(...): the handler ends.  Of its locals only the request
\* (op, user, sold key) and its outcome are kept: status, whether drawCard
\* returned or threw, and the history of what its statements did (net change
\* of the balance, pull records appended, collection row inserted or merged).
Respond(r, s) ==
  [NoRq EXCEPT !.op = rq[r].op, !.user = rq[r].user,
               !.key = IF rq[r].op = "sell" THEN rq[r].key ELSE "",
               !.status = s, !.draw = rq[r].draw,
               !.net = rq[r].net, !.npull = rq[r].npull,
               !.merged = rq[r].merged]

Busy(r) == pc[r] \notin {"idle", "done"}
Quiet   == \A r \in Reqs : ~Busy(r)

\* A new request is served in the first free slot (slots are interchangeable).
Free(r) == ~Busy(r) /\ \A q \in Reqs : q < r => Busy(q)

\* ---------------------------------------------------------------- accrual
\* A faulty LastOf: the stored timestamp taken as it is, 0 included.
LastOfStored(stored, t) == stored

\* const last = u.lastPay || now   (0 is falsy: "securite")
LastOf(stored, t) == IF stored = 0 THEN t ELSE stored

\* A faulty TicksOf: the elapsed time rounded up to a whole tick.
TicksOfCeil(last, t) ==
  (Max(0, t - last) + PAY_EVERY_MS - 1) \div PAY_EVERY_MS

\* const delta = Math.max(0, now - last); ticks = Math.floor(delta / PAY_EVERY_MS)
TicksOf(last, t) == Max(0, t - last) \div PAY_EVERY_MS

\* A faulty NewLastOf: the timestamp advanced by one tick whatever was granted.
NewLastOfOneTick(last, ticks) == last + PAY_EVERY_MS

\* const newLast = last + ticks * PAY_EVERY_MS
NewLastOf(last, ticks) == last + ticks * PAY_EVERY_MS

\* const add = ticks * PAY_AMOUNT
AddOf(ticks) == ticks * PAY_AMOUNT

AfterPay(op) == IF op = "me" THEN "me_select" ELSE "open_select"

\* applyPayForUser, up to its UPDATE: SELECT money, lastPay; Date.now(); ticks.
\* With ticks = 0 the function returns here, without a write.
PayRead(r) ==
  /\ pc[r] = "pay_read"
  /\ LET u     == rq[r].user
         last  == LastOf(lastPay[u], now)
         ticks == TicksOf(last, now)
     IN  IF ticks > 0
         THEN /\ rq' = [rq EXCEPT ![r].last = last, ![r].now = now,
                                  ![r].ticks = ticks]
              /\ pc' = [pc EXCEPT ![r] = "pay_write"]
              /\ accruedAt' = accruedAt
         ELSE /\ rq' = rq
              /\ pc' = [pc EXCEPT ![r] = AfterPay(rq[r].op)]
              /\ accruedAt' = [accruedAt EXCEPT ![u] = now]
  /\ UNCHANGED <<engineVars,
                 variant, now, money, lastPay, collection, pulls, nReq,
                 granted, last0, removed>>

\* UPDATE users SET money = money + $add, lastPay = $newLast WHERE id = $userId
PayWrite(r) ==
  /\ pc[r] = "pay_write"
  /\ LET u == rq[r].user
     IN  /\ money'   = [money EXCEPT ![u] = @ + AddOf(rq[r].ticks)]
         /\ lastPay' = [lastPay EXCEPT ![u] = NewLastOf(rq[r].last, rq[r].ticks)]
         /\ granted' = [granted EXCEPT ![u] = @ + (money'[u] - money[u])]
         /\ accruedAt' = [accruedAt EXCEPT ![u] = rq[r].now]
  /\ rq' = [rq EXCEPT ![r].last = 0, ![r].now = 0]
  /\ pc' = [pc EXCEPT ![r] = AfterPay(rq[r].op)]
  /\ UNCHANGED <<engineVars,
                 variant, now, collection, pulls, nReq, last0, removed>>

\* ------------------------------------------------------------ GET /api/me
StartMe(r, u) ==
  /\ Free(r)
  /\ nReq < MaxRequests
  /\ nReq' = nReq + 1
  /\ rq' = [rq EXCEPT ![r] = [NoRq EXCEPT !.op = "me", !.user = u]]
  /\ pc' = [pc EXCEPT ![r] = "pay_read"]
  /\ UNCHANGED <<engineVars,
                 variant, now, money, lastPay, collection, pulls,
                 granted, last0, removed, accruedAt>>

\* SELECT name, money FROM users; res.json({ name, money })
MeSelect(r) ==
  /\ pc[r] = "me_select"
  /\ rq' = [rq EXCEPT ![r] = Respond(r, 200)]
  /\ pc' = [pc EXCEPT ![r] = "done"]
  /\ UNCHANGED <<engineVars,
                 variant, now, money, lastPay, collection, pulls, nReq,
                 granted, last0, removed, accruedAt>>

\* ---------------------------------------------------------------- lottery
\* A faulty rollGrade: the thresholds compared with <= instead of <.
rollGradeInclusive(r) ==
  IF r <= 2 THEN 10
  ELSE IF r <= 10 THEN 9
  ELSE IF r <= 20 THEN 8
  ELSE IF r <= 34 THEN 7
  ELSE IF r <= 52 THEN 6
  ELSE IF r <= 70 THEN 5
  ELSE IF r <= 82 THEN 4
  ELSE IF r <= 91 THEN 3
  ELSE IF r <= 97 THEN 2
  ELSE 1

\* rollGrade(), with r = Math.random() in hundredths.
rollGrade(r) ==
  IF r < 2 THEN 10
  ELSE IF r < 10 THEN 9
  ELSE IF r < 20 THEN 8
  ELSE IF r < 34 THEN 7
  ELSE IF r < 52 THEN 6
  ELSE IF r < 70 THEN 5
  ELSE IF r < 82 THEN 4
  ELSE IF r < 91 THEN 3
  ELSE IF r < 97 THEN 2
  ELSE 1

\* A faulty rollMintForGrade: the test of the grade left out.
rollMintAnyGrade(grade, r) == IF 3 * r < 100 THEN 1 ELSE 0

\* rollMintForGrade(grade), with r = Math.random() in hundredths: r < 1/3.
rollMintForGrade(grade, r) ==
  IF grade # 10 THEN 0 ELSE IF 3 * r < 100 THEN 1 ELSE 0

\* Math.random() in hundredths: 0/100 .. 99/100.
Draws == 0..99

\* The lottery before its first draw: n draws sampled, hist[g] of them graded
\* g; r and m are the last two values of Math.random(), grade and mint what
\* the purchase got from them.
NoLot ==
  [n |-> 0, hist |-> [g \in 1..10 |-> 0], r |-> 0, m |-> 0,
   grade |-> 0, mint |-> 0]

\* const grade = rollGrade(); const mint = rollMintForGrade(grade);
\* The hundredths are fed to rollGrade in increasing order, each once; the
\* draw of rollMintForGrade is any hundredth.
Roll(m) ==
  /\ lot.n \in Draws
  /\ LET r     == lot.n
         grade == rollGrade(r)
         mint  == rollMintForGrade(grade, m)
     IN  lot' = [n |-> lot.n + 1,
                 hist |-> [lot.hist EXCEPT ![grade] = @ + 1],
                 r |-> r, m |-> m, grade |-> grade, mint |-> mint]
  /\ UNCHANGED <<storeVars, dc, friends, fq, queue>>

\* --------------------------------------------------------------- resolver
MAX_TRIES == 6

\* An image reference: stem, optional trailing slash, optional extension.
NoUrl == [stem |-> "", slash |-> FALSE, ext |-> ""]
UrlStr(u) == u.stem \o (IF u.slash THEN "/" ELSE "") \o u.ext

\* The image field of a card detail: absent, a string, an object of quality
\* variants (in the order high, large, medium, small, url), or something else.
Quality == <<"high", "large", "medium", "small", "url">>
NoVariants == [q \in 1..5 |-> NoUrl]
ImgPng  == [stem |-> "https://t/p", slash |-> FALSE, ext |-> ".png"]
ImgBare == [stem |-> "https://t/e", slash |-> TRUE, ext |-> ""]
ImageValues ==
  { [kind |-> "none",   url |-> NoUrl,   variants |-> NoVariants],
    [kind |-> "string", url |-> ImgPng,  variants |-> NoVariants],
    [kind |-> "string", url |-> ImgBare, variants |-> NoVariants],
    [kind |-> "object", url |-> NoUrl,
     variants |-> [NoVariants EXCEPT ![4] = ImgBare, ![5] = ImgPng]],
    [kind |-> "object", url |-> NoUrl,   variants |-> NoVariants],
    [kind |-> "number", url |-> NoUrl,   variants |-> NoVariants] }

\* imgUrl.high || imgUrl.large || imgUrl.medium || imgUrl.small || imgUrl.url
\* || null
RECURSIVE FirstVariant(_, _)
FirstVariant(variants, q) ==
  IF q > 5 THEN NoUrl
  ELSE IF variants[q] # NoUrl THEN variants[q]
  ELSE FirstVariant(variants, q + 1)

\* normalizeImageUrl(imgUrl): "" stands for null.  A reference without a
\* file extension loses its trailing slash and gets "/high.png".
normalizeImageUrl(v) ==
  LET u == IF v.kind = "object" THEN FirstVariant(v.variants, 1)
           ELSE IF v.kind = "string" THEN v.url
           ELSE NoUrl
  IN  IF u = NoUrl THEN ""
      ELSE IF u.ext # "" THEN UrlStr(u)
      ELSE UrlStr([u EXCEPT !.slash = FALSE, !.ext = "/high.png"])

\* a || b on strings
OrElse(a, b) == IF a # "" THEN a ELSE b

\* data/cards.json as loadOffline() keeps it: any non-empty array, an entry
\* with or without an image; <<>> stands for offlineCards = null.
NoImageEntry == [name |-> "Eevee", set |-> "Jungle", image |-> ""]
ImageEntry   == CHOOSE c \in Cards : c.name = "Pikachu"
Pools == { <<>>, <<ImageEntry>>, <<NoImageEntry>>,
           <<ImageEntry, NoImageEntry>> }

\* Math.floor(Math.random() * offlineCards.length): any index.
PickIndexes(pool) == 1..Len(pool)

\* What fetch() does within fetchWithTimeout: a response with r.ok, a
\* response without, a rejection by a network error, or the rejection by
\* controller.abort() after 20 s.  fetchWithTimeout has try/finally only.
FetchOutcomes == {"ok", "notok", "network", "timeout"}
Rejects(o) == o \in {"network", "timeout"}

\* Bodies of the card list: r.json() failing or not an array, an empty
\* array, arrays of brief entries with or without an id.
BriefId   == [id |-> "fo-14", name |-> "Raichu"]
BriefNoId == [id |-> "", name |-> "Raichu"]
BriefNoName == [id |-> "fo-14", name |-> ""]
ListBodies ==
  { [array |-> FALSE, items |-> <<>>],
    [array |-> TRUE,  items |-> <<>>],
    [array |-> TRUE,  items |-> <<BriefId, BriefNoId>>],
    [array |-> TRUE,  items |-> <<BriefNoName>>] }

\* Bodies of a card detail: null, or name, set { name, id } and image.
NoDetail ==
  [null |-> TRUE, name |-> "", set |-> [name |-> "", id |-> ""],
   image |-> CHOOSE v \in ImageValues : v.kind = "none"]
DetailBodies ==
  {NoDetail} \cup
  [null : {FALSE}, name : {"", "Raichu"},
   set : {[name |-> "Fossil", id |-> "fo"], [name |-> "", id |-> "fo"],
          [name |-> "", id |-> ""]},
   image : ImageValues]

\* drawCard() not running.  offlinePicks, fetches, oks and failure are
\* history: picks made in the pool, upstream requests issued, those answered
\* with r.ok, and the outcome of the last request.
NoDraw ==
  [pc |-> "off", offlineCards |-> <<>>, FORCE_OFFLINE |-> FALSE,
   attempt |-> 0, pick |-> BriefNoId, c |-> NoCard, from |-> "none",
   error |-> "", offlinePicks |-> 0, fetches |-> 0, oks |-> 0,
   failure |-> "none", listLoaded |-> FALSE, refetches |-> 0]

\* return c
Returned(d, c, from) == [d EXCEPT !.pc = "returned", !.c = c, !.from = from]

\* throw new Error(msg), or the rejection of an awaited fetch
Thrown(d, msg) == [d EXCEPT !.pc = "thrown", !.error = msg]

\* A faulty MoreTries: the loop ends one try early.
MoreTriesOneLess(attempt) == attempt < MAX_TRIES - 1

\* for (let attempt = 0; attempt < MAX_TRIES; attempt++)
MoreTries(attempt) == attempt < MAX_TRIES

\* continue: the try is abandoned; the loop goes on or ends.
Continue(d) ==
  [d EXCEPT !.attempt = @ + 1,
            !.pc = IF MoreTries(d.attempt + 1) THEN "list" ELSE "fallback"]

\* if (c?.image)
Usable(c) == c.image # ""

\* if (offlineCards?.length) { c = offlineCards[...]; if (c?.image) return c }
\* (the picked entry is kept in c also when it has no image)
Offline(d, i, otherwise) ==
  IF d.offlineCards = <<>> THEN otherwise
  ELSE LET picked == [d EXCEPT !.c = d.offlineCards[i],
                               !.offlinePicks = @ + 1]
       IN  IF Usable(d.offlineCards[i])
           THEN Returned(picked, d.offlineCards[i], "offline")
           ELSE [otherwise EXCEPT !.c = d.offlineCards[i],
                                  !.offlinePicks = d.offlinePicks + 1]

\* A faulty OfflineOnly: the FORCE_OFFLINE test left out.
OfflineOnlyNever(d) == FALSE

\* if (FORCE_OFFLINE) throw new Error("Offline only: no cards.json")
OfflineOnly(d) == d.FORCE_OFFLINE

\* drawCard() up to its first await: 1) offline first; the FORCE_OFFLINE
\* test; entry of the retry loop.
DrawFirst ==
  /\ dc.pc = "start"
  /\ \E i \in PickIndexes(dc.offlineCards) \cup {1} :
       dc' = Offline(dc, i,
                     IF OfflineOnly(dc)
                     THEN Thrown(dc, "Offline only: no cards.json")
                     ELSE [dc EXCEPT !.pc = IF MoreTries(0) THEN "list"
                                            ELSE "fallback"])
  /\ UNCHANGED <<storeVars, lot, friends, fq, queue>>

\* const cards = await r.json(): the response holds a list of cards.
Loaded(o, body) == o = "ok" /\ body.array /\ body.items # <<>>

\* One try up to its second fetch: the list request, r.json(), the pick.
\* (listLoaded: an earlier list request of this call brought a list;
\* refetches: list requests issued although one had.)
DrawList ==
  /\ dc.pc = "list"
  /\ \E o \in FetchOutcomes, body \in ListBodies :
       \E i \in PickIndexes(body.items) \cup {1} :
         LET d == [dc EXCEPT !.fetches = @ + 1, !.failure = o,
                             !.oks = IF o = "ok" THEN @ + 1 ELSE @,
                             !.refetches = IF dc.listLoaded THEN @ + 1
                                           ELSE @,
                             !.listLoaded = @ \/ Loaded(o, body)]
         IN  dc' = IF Rejects(o) THEN Thrown(d, "fetch rejected")
                   ELSE IF o # "ok" THEN Continue(d)
                   ELSE IF ~body.array \/ body.items = <<>> THEN Continue(d)
                   ELSE IF body.items[i].id = "" THEN Continue(d)
                   ELSE [d EXCEPT !.pc = "detail", !.pick = body.items[i]]
  /\ UNCHANGED <<storeVars, lot, friends, fq, queue>>

\* The rest of the try: the detail request, r2.json(), normalizeImageUrl,
\* and the card returned.
DrawDetail ==
  /\ dc.pc = "detail"
  /\ \E o \in FetchOutcomes, c \in DetailBodies :
       LET d   == [dc EXCEPT !.fetches = @ + 1, !.failure = o,
                             !.oks = IF o = "ok" THEN @ + 1 ELSE @,
                             !.pick = BriefNoId]
           img == normalizeImageUrl(c.image)
       IN  dc' = IF Rejects(o) THEN Thrown(d, "fetch rejected")
                 ELSE IF o # "ok" THEN Continue(d)
                 ELSE IF c.null THEN Continue(d)
                 ELSE IF img = "" THEN Continue(d)
                 ELSE Returned(d,
                        [name |-> OrElse(OrElse(c.name, dc.pick.name),
                                         "Unknown"),
                         set |-> OrElse(OrElse(c.set.name, c.set.id),
                                        "Unknown"),
                         image |-> img],
                        "remote")
  /\ UNCHANGED <<storeVars, lot, friends, fq, queue>>

\* 3) the last chance offline, or throw new Error("No image (TCGdex)")
DrawLast ==
  /\ dc.pc = "fallback"
  /\ \E i \in PickIndexes(dc.offlineCards) \cup {1} :
       dc' = Offline(dc, i, Thrown(dc, "No image (TCGdex)"))
  /\ UNCHANGED <<storeVars, lot, friends, fq, queue>>

\* ------------------------------------------------------ table collection
HasRow(u, k) == <<u, k>> \in DOMAIN collection

\* INSERT INTO collection (...) VALUES (..., 1, $lastAt)
NewRow(c, grade, mint, at) ==
  [name |-> c.name, setName |-> c.set, image |-> c.image,
   grade |-> grade, mint |-> mint, count |-> 1, lastAt |-> at]

\* A faulty MergeRow: the new pull's grade overwrites the stored one.
MergeRowOverwrite(row, grade, mint, at) ==
  [row EXCEPT !.count = @ + 1,
              !.grade = grade,
              !.mint  = IF @ = 1 \/ mint = 1 THEN 1 ELSE 0,
              !.lastAt = at]

\* A faulty MergeRow: the mint flag of the new pull replaces the stored one.
MergeRowMintLast(row, grade, mint, at) ==
  [row EXCEPT !.count = @ + 1,
              !.grade = IF grade > @ THEN grade ELSE @,
              !.mint  = mint,
              !.lastAt = at]

\* SET count = count + 1, grade = GREATEST(grade, new), mint = old OR new,
\*     lastAt = new
MergeRow(row, grade, mint, at) ==
  [row EXCEPT !.count = @ + 1,
              !.grade = IF grade > @ THEN grade ELSE @,
              !.mint  = IF @ = 1 \/ mint = 1 THEN 1 ELSE 0,
              !.lastAt = at]

InsertRow(u, k, row) == (<<u, k>> :> row) @@ collection
UpdateRow(u, k, row) == [collection EXCEPT ![<<u, k>>] = row]
DeleteRow(u, k) ==
  [x \in DOMAIN collection \ {<<u, k>>} |-> collection[x]]

\* A faulty PullOf: the record written without the mint flag of the draw.
PullOfFlagless(c, grade, mint, at) ==
  [name |-> c.name, setName |-> c.set, image |-> c.image,
   grade |-> grade, mint |-> 0, at |-> at]

\* INSERT INTO pulls (user_id, name, setName, image, grade, mint, at)
PullOf(c, grade, mint, at) ==
  [name |-> c.name, setName |-> c.set, image |-> c.image,
   grade |-> grade, mint |-> mint, at |-> at]

\* ---------------------------------------------------------- POST /api/open
StartOpen(r, u) ==
  /\ Free(r)
  /\ nReq < MaxRequests
  /\ nReq' = nReq + 1
  /\ rq' = [rq EXCEPT ![r] = [NoRq EXCEPT !.op = "open", !.user = u]]
  /\ pc' = [pc EXCEPT ![r] = "pay_read"]
  /\ UNCHANGED <<engineVars,
                 variant, now, money, lastPay, collection, pulls,
                 granted, last0, removed, accruedAt>>

\* A faulty Affordable: the balance compared with 0 instead of the cost.
AffordableAboveZero(m) == ~(m < 0)

\* if (money < COST_ONE) return 400
Affordable(m) == ~(m < COST_ONE)

\* SELECT money FROM users; if (money < COST_ONE) return res.status(400)
OpenSelect(r) ==
  /\ pc[r] = "open_select"
  /\ IF Affordable(money[rq[r].user])
     THEN /\ pc' = [pc EXCEPT ![r] = "open_debit"]
          /\ rq' = [rq EXCEPT ![r].ticks = 0]
     ELSE /\ pc' = [pc EXCEPT ![r] = "done"]
          /\ rq' = [rq EXCEPT ![r] = Respond(r, 400)]
  /\ UNCHANGED <<engineVars,
                 variant, now, money, lastPay, collection, pulls, nReq,
                 granted, last0, removed, accruedAt>>

\* UPDATE users SET money = money - $COST_ONE
Debited(m) == m - COST_ONE

\* A faulty Refunded: the refund statement credits nothing.
RefundedNothing(m) == m

\* UPDATE users SET money = money + $COST_ONE   (remboursement)
Refunded(m) == m + COST_ONE

OpenDebit(r) ==
  /\ pc[r] = "open_debit"
  /\ LET u == rq[r].user
     IN  /\ money' = [money EXCEPT ![u] = Debited(@)]
         /\ rq' = [rq EXCEPT ![r].net = @ + (money'[u] - money[u])]
  /\ pc' = [pc EXCEPT ![r] = "open_draw"]
  /\ UNCHANGED <<engineVars,
                 variant, now, lastPay, collection, pulls, nReq,
                 granted, last0, removed, accruedAt>>

\* c = await drawCard(): a card, or an exception caught by the handler.
\* Then grade = rollGrade(), mint = rollMintForGrade(grade), now = Date.now().
OpenDraw(r) ==
  /\ pc[r] = "open_draw"
  /\ \/ /\ pc' = [pc EXCEPT ![r] = "open_refund"]
        /\ rq' = [rq EXCEPT ![r].draw = "throw"]
     \/ \E c \in Cards, g \in GradeDraws, m \in MintDraws :
          LET grade == rollGrade(g)
          IN  /\ rq' = [rq EXCEPT ![r].draw = "card",
                                  ![r].card = c, ![r].key = IdKeyOf(c),
                                  ![r].grade = grade,
                                  ![r].mint = rollMintForGrade(grade, m),
                                  ![r].at = now]
              /\ pc' = [pc EXCEPT ![r] = "open_pull"]
  /\ UNCHANGED <<engineVars,
                 variant, now, money, lastPay, collection, pulls, nReq,
                 granted, last0, removed, accruedAt>>

\* catch (e): refund, then res.status(502)
OpenRefund(r) ==
  /\ pc[r] = "open_refund"
  /\ LET u == rq[r].user
     IN  /\ money' = [money EXCEPT ![u] = Refunded(@)]
         /\ rq' = [rq EXCEPT ![r] =
                     [Respond(r, 502) EXCEPT
                        !.net = rq[r].net + (money'[u] - money[u])]]
  /\ pc' = [pc EXCEPT ![r] = "done"]
  /\ UNCHANGED <<engineVars,
                 variant, now, lastPay, collection, pulls, nReq,
                 granted, last0, removed, accruedAt>>

\* INSERT INTO pulls ...
OpenPull(r) ==
  /\ pc[r] = "open_pull"
  /\ LET u == rq[r].user
     IN  pulls' = [pulls EXCEPT ![u] =
                     Append(@, PullOf(rq[r].card, rq[r].grade, rq[r].mint,
                                      rq[r].at))]
  /\ rq' = [rq EXCEPT ![r].npull = @ + 1]
  /\ pc' = [pc EXCEPT ![r] = IF variant = "pg" THEN "open_upsert"
                             ELSE "open_exist"]
  /\ UNCHANGED <<engineVars,
                 variant, now, money, lastPay, collection, nReq,
                 granted, last0, removed, accruedAt>>

\* Postgres: INSERT ... ON CONFLICT (user_id, idKey) DO UPDATE SET ...
OpenUpsert(r) ==
  /\ pc[r] = "open_upsert"
  /\ LET u == rq[r].user
         k == rq[r].key
     IN  collection' =
           IF HasRow(u, k)
           THEN UpdateRow(u, k, MergeRow(collection[<<u, k>>], rq[r].grade,
                                         rq[r].mint, rq[r].at))
           ELSE InsertRow(u, k, NewRow(rq[r].card, rq[r].grade, rq[r].mint,
                                       rq[r].at))
  /\ rq' = [rq EXCEPT ![r].merged = TRUE]
  /\ pc' = [pc EXCEPT ![r] = "open_final"]
  /\ UNCHANGED <<engineVars,
                 variant, now, money, lastPay, pulls, nReq,
                 granted, last0, removed, accruedAt>>

\* SQLite: existing = SELECT count, grade, mint FROM collection WHERE ...
OpenExisting(r) ==
  /\ pc[r] = "open_exist"
  /\ rq' = [rq EXCEPT ![r].existing = HasRow(rq[r].user, rq[r].key)]
  /\ pc' = [pc EXCEPT ![r] = IF HasRow(rq[r].user, rq[r].key)
                             THEN "open_update" ELSE "open_insert"]
  /\ UNCHANGED <<engineVars,
                 variant, now, money, lastPay, collection, pulls, nReq,
                 granted, last0, removed, accruedAt>>

\* SQLite: if (existing) UPDATE collection SET ... WHERE user_id=? AND idKey=?
\* (no row matches when a sale has deleted it since the SELECT)
OpenUpdate(r) ==
  /\ pc[r] = "open_update"
  /\ LET u == rq[r].user
         k == rq[r].key
     IN  IF HasRow(u, k)
         THEN /\ collection' =
                   UpdateRow(u, k, MergeRow(collection[<<u, k>>], rq[r].grade,
                                            rq[r].mint, rq[r].at))
              /\ rq' = [rq EXCEPT ![r].merged = TRUE]
         ELSE /\ collection' = collection
              /\ rq' = rq
  /\ pc' = [pc EXCEPT ![r] = "open_final"]
  /\ UNCHANGED <<engineVars,
                 variant, now, money, lastPay, pulls, nReq,
                 granted, last0, removed, accruedAt>>

\* SQLite: else INSERT INTO collection ...  The primary key (user_id, idKey)
\* rejects the INSERT when the row exists by now: db.run rejects, the handler
\* has no catch around it and ends without the result.
OpenInsert(r) ==
  /\ pc[r] = "open_insert"
  /\ LET u == rq[r].user
         k == rq[r].key
     IN  IF HasRow(u, k)
         THEN /\ collection' = collection
              /\ rq' = [rq EXCEPT ![r] = Respond(r, 500)]
              /\ pc' = [pc EXCEPT ![r] = "done"]
         ELSE /\ collection' =
                   InsertRow(u, k, NewRow(rq[r].card, rq[r].grade, rq[r].mint,
                                          rq[r].at))
              /\ rq' = [rq EXCEPT ![r].merged = TRUE]
              /\ pc' = [pc EXCEPT ![r] = "open_final"]
  /\ UNCHANGED <<engineVars,
                 variant, now, money, lastPay, pulls, nReq,
                 granted, last0, removed, accruedAt>>

\* me = SELECT money FROM users; res.json({ money, card })
OpenFinal(r) ==
  /\ pc[r] = "open_final"
  /\ rq' = [rq EXCEPT ![r] = Respond(r, 200)]
  /\ pc' = [pc EXCEPT ![r] = "done"]
  /\ UNCHANGED <<engineVars,
                 variant, now, money, lastPay, collection, pulls, nReq,
                 granted, last0, removed, accruedAt>>

\* ---------------------------------------------------------- POST /api/sell
\* idKey = String(req.body?.idKey || ""); if (!idKey) return 400
StartSell(r, u, k) ==
  /\ Free(r)
  /\ nReq < MaxRequests
  /\ nReq' = nReq + 1
  /\ IF k = ""
     THEN /\ rq' = [rq EXCEPT ![r] =
                      [NoRq EXCEPT !.op = "sell", !.user = u, !.status = 400]]
          /\ pc' = [pc EXCEPT ![r] = "done"]
     ELSE /\ rq' = [rq EXCEPT ![r] =
                      [NoRq EXCEPT !.op = "sell", !.user = u, !.key = k]]
          /\ pc' = [pc EXCEPT ![r] = "sell_select"]
  /\ UNCHANGED <<engineVars,
                 variant, now, money, lastPay, collection, pulls,
                 granted, last0, removed, accruedAt>>

\* A faulty SellRows: the lookup without its user_id condition.
SellRowsAnyUser(u, k) == {x \in DOMAIN collection : x[2] = k}

\* SELECT count FROM collection WHERE user_id=$1 AND idKey=$2
SellRows(u, k) == {x \in DOMAIN collection : x[1] = u /\ x[2] = k}

\* it = rows[0]; if (!it) return res.status(404)
SellSelect(r) ==
  /\ pc[r] = "sell_select"
  /\ LET u == rq[r].user
         k == rq[r].key
         rows == SellRows(u, k)
     IN  IF rows # {}
         THEN /\ rq' = [rq EXCEPT ![r].count =
                                    collection[CHOOSE x \in rows : TRUE].count]
              /\ pc' = [pc EXCEPT ![r] = "sell_write"]
         ELSE /\ rq' = [rq EXCEPT ![r] = Respond(r, 404)]
              /\ pc' = [pc EXCEPT ![r] = "done"]
  /\ UNCHANGED <<engineVars,
                 variant, now, money, lastPay, collection, pulls, nReq,
                 granted, last0, removed, accruedAt>>

\* UPDATE collection SET count = count - 1 WHERE ...
Decremented(row) == [row EXCEPT !.count = @ - 1]

\* if (it.count <= 1) DELETE FROM collection ... else UPDATE ... count - 1
SellWrite(r) ==
  /\ pc[r] = "sell_write"
  /\ LET u == rq[r].user
         k == rq[r].key
     IN  IF ~HasRow(u, k)
         THEN UNCHANGED <<collection, removed>>
         ELSE IF rq[r].count <= 1
         THEN /\ collection' = DeleteRow(u, k)
              /\ removed' = [removed EXCEPT ![<<u, k>>] =
                               @ + collection[<<u, k>>].count]
         ELSE /\ collection' = UpdateRow(u, k, Decremented(collection[<<u, k>>]))
              /\ removed' = [removed EXCEPT ![<<u, k>>] = @ + 1]
  /\ rq' = [rq EXCEPT ![r].count = 0]
  /\ pc' = [pc EXCEPT ![r] = "sell_credit"]
  /\ UNCHANGED <<engineVars,
                 variant, now, money, lastPay, pulls, nReq, granted, last0,
                 accruedAt>>

\* A faulty Credited: a sale credits the price of a purchase.
CreditedCost(m) == m + COST_ONE

\* UPDATE users SET money = money + 1
Credited(m) == m + 1

SellCredit(r) ==
  /\ pc[r] = "sell_credit"
  /\ LET u == rq[r].user
     IN  /\ money' = [money EXCEPT ![u] = Credited(@)]
         /\ rq' = [rq EXCEPT ![r].net = @ + (money'[u] - money[u])]
  /\ pc' = [pc EXCEPT ![r] = "sell_final"]
  /\ UNCHANGED <<engineVars,
                 variant, now, lastPay, collection, pulls, nReq,
                 granted, last0, removed, accruedAt>>

\* me = SELECT money FROM users; res.json({ ok: true, money })
SellFinal(r) ==
  /\ pc[r] = "sell_final"
  /\ rq' = [rq EXCEPT ![r] = Respond(r, 200)]
  /\ pc' = [pc EXCEPT ![r] = "done"]
  /\ UNCHANGED <<engineVars,
                 variant, now, money, lastPay, collection, pulls, nReq,
                 granted, last0, removed, accruedAt>>

\* ---------------------------------------------------------------- friends
\* src/server.js has no friend operation; these follow the design document
\* (sections 3, 4.6 and 6: Friend Relation, friend-scoped read, addFriend).
\* The unique shareable friend code of each account, and a code of no account.
FriendCodeOf == (1 :> "AAA111") @@ (2 :> "BBB222")
FriendCodes  == {FriendCodeOf[u] : u \in Players} \cup {"ZZZ999"}

\* The account a friend code belongs to (0: none).
OwnerOf(code) ==
  IF \E u \in Players : FriendCodeOf[u] = code
  THEN CHOOSE u \in Players : FriendCodeOf[u] = code
  ELSE 0

NoFq == [op |-> "none", by |-> 0, code |-> "", result |-> "", items |-> {}]

\* A faulty IsFriend: the direction of the edge ignored.
IsFriendEitherWay(u, o) ==
  <<u, o>> \in DOMAIN friends \/ <<o, u>> \in DOMAIN friends

\* A Friend Relation requester -> owner exists.
IsFriend(u, o) == <<u, o>> \in DOMAIN friends

\* The Collection Entries of a player.
ItemsOf(o) == {collection[x] : x \in {y \in DOMAIN collection : y[1] = o}}

\* addFriend(credential, friendCode): a directed edge player -> friend with
\* its creation timestamp; a self-referential edge is forbidden and a code of
\* no account is invalid input; an edge that exists is kept as it is.
AddFriend(u, code) ==
  /\ LET o == OwnerOf(code)
     IN  IF o = 0 \/ o = u
         THEN /\ friends' = friends
              /\ fq' = [NoFq EXCEPT !.op = "add", !.by = u, !.code = code,
                                    !.result = "InvalidInput"]
         ELSE /\ friends' = IF IsFriend(u, o) THEN friends
                            ELSE (<<u, o>> :> now) @@ friends
              /\ fq' = [NoFq EXCEPT !.op = "add", !.by = u, !.code = code,
                                    !.result = "ok"]
  /\ UNCHANGED <<storeVars, lot, dc, queue>>

\* listFriendCollection(credential, friendCode): the owner's Collection
\* Entries if a Friend Relation requester -> owner exists, else Forbidden.
ReadFriendCollection(u, code) ==
  /\ LET o == OwnerOf(code)
     IN  fq' = IF o # 0 /\ IsFriend(u, o)
               THEN [NoFq EXCEPT !.op = "read", !.by = u, !.code = code,
                                 !.result = "ok", !.items = ItemsOf(o)]
               ELSE [NoFq EXCEPT !.op = "read", !.by = u, !.code = code,
                                 !.result = "Forbidden"]
  /\ UNCHANGED <<storeVars, lot, dc, friends, queue>>

\* ------------------------------------------- runQueue (image downloader)
\* Longest item list and largest concurrency explored.
MaxItems       == 3
MaxConcurrency == 2

\* What one call workerFn(item) does: its promise fulfils with a truthy or
\* a falsy value, or rejects, or the call throws before returning a promise.
WorkerOutcomes == {"truthy", "falsy", "rejects", "throws"}

\* items, each named by what workerFn does with it.
ItemLists == UNION {[1..n -> WorkerOutcomes] : n \in 0..MaxItems}

NoResult == [resolved |-> FALSE, ok |-> 0, total |-> 0]

\* runQueue's locals (idx, active, done, ok), the promise it returns
\* (result), and the history of the call: the items whose worker call is in
\* flight, how many times each item was handed to workerFn, and how many
\* times resolve was called.
NoQueue ==
  [pc |-> "off", items |-> <<>>, concurrency |-> 0,
   idx |-> 0, active |-> 0, done |-> 0, ok |-> 0,
   running |-> {}, handed |-> <<>>, resolves |-> 0, result |-> NoResult]

\* resolve({ ok, total: items.length }): only the first call settles the
\* promise.
Resolve(q) ==
  [q EXCEPT !.resolves = @ + 1,
            !.result = IF @.resolved THEN @
                       ELSE [resolved |-> TRUE, ok |-> q.ok,
                             total |-> Len(q.items)]]

\* A faulty CanLaunch: one worker more than the concurrency allows.
CanLaunchOneMore(q) == q.active <= q.concurrency /\ q.idx < Len(q.items)

\* while (active < concurrency && idx < items.length)
CanLaunch(q) == q.active < q.concurrency /\ q.idx < Len(q.items)

\* const item = items[idx++]; active++; workerFn(item) is called
Launch(q) ==
  [q EXCEPT !.idx = @ + 1, !.active = @ + 1,
            !.handed[q.idx + 1] = @ + 1,
            !.running = @ \cup {q.idx + 1}]

RECURSIVE next(_), Finally(_, _)

\* finally { active--; done++;
\*           if (idx >= items.length && active === 0) resolve(...)
\*           else next() }
Finally(q, i) ==
  LET f == [q EXCEPT !.active = @ - 1, !.done = @ + 1,
                     !.running = @ \ {i}]
  IN  IF f.idx >= Len(f.items) /\ f.active = 0 THEN Resolve(f)
      ELSE next(f)

\* const next = async () => { while (...) { ...; (async () => {...})() } }
\* A worker call that throws at once is caught, and its finally block runs,
\* inside the loop; the others are left in flight.
next(q) ==
  IF CanLaunch(q)
  THEN IF q.items[q.idx + 1] = "throws"
       THEN next(Finally(Launch(q), q.idx + 1))
       ELSE next(Launch(q))
  ELSE q

\* runQueue(items, workerFn, concurrency): new Promise(...), next()
CallRunQueue ==
  /\ queue.pc = "called"
  /\ queue' = [next(queue) EXCEPT !.pc = "running"]
  /\ UNCHANGED <<storeVars, lot, dc, friends, fq>>

\* The promise of the worker call of item i settles:
\* r = await workerFn(item); if (r) ok++; catch {}; finally {...}
Settle(i) ==
  /\ queue.pc = "running"
  /\ i \in queue.running
  /\ queue' = Finally([queue EXCEPT
                         !.ok = IF queue.items[i] = "truthy" THEN @ + 1
                                ELSE @],
                      i)
  /\ UNCHANGED <<storeVars, lot, dc, friends, fq>>

\* ------------------------------------------------------------------ clock
Clock(steps) ==
  /\ now + StepMs <= T0 + steps * StepMs
  /\ now' = now + StepMs
  /\ UNCHANGED <<engineVars,
                 variant, money, lastPay, collection, pulls, pc, rq, nReq,
                 granted, last0, removed, accruedAt>>

Tick    == Clock(MaxClock)
TickSeq == Clock(MaxClockSeq)
TickOwned == Clock(MaxClock + 1)

\* ------------------------------------------------------------ specification
\* Accounts are created by POST /api/login with money 0 and lastPay = now;
\* the SQLite server's migration adds lastPay to older accounts with DEFAULT 0:
\* there, user 2 is such an account.
InitStore ==
  /\ variant \in Variants
  /\ now = T0
  /\ money = [u \in Players |-> 0]
  /\ lastPay = [u \in Players |-> IF variant = "sqlite" /\ u = 2 THEN 0 ELSE T0]
  /\ collection = <<>>
  /\ pulls = [u \in Players |-> <<>>]
  /\ pc = [r \in Reqs |-> "idle"]
  /\ rq = [r \in Reqs |-> NoRq]
  /\ nReq = 0
  /\ granted = [u \in Players |-> 0]
  /\ last0 = lastPay
  /\ removed = [k \in Players \X IdKeys |-> 0]
  /\ accruedAt = [u \in Players |-> 0]

\* No request received yet; the lottery and drawCard() at rest.
Init ==
  /\ InitStore
  /\ lot = NoLot
  /\ dc = NoDraw
  /\ friends = <<>>
  /\ fq = NoFq
  /\ queue = NoQueue

Next ==
  \/ Tick
  \/ \E r \in Reqs, u \in Players : StartMe(r, u)
  \/ \E r \in Reqs : PayRead(r)
  \/ \E r \in Reqs : PayWrite(r)
  \/ \E r \in Reqs : MeSelect(r)
  \/ \E r \in Reqs, u \in Players : StartOpen(r, u)
  \/ \E r \in Reqs : OpenSelect(r)
  \/ \E r \in Reqs : OpenDebit(r)
  \/ \E r \in Reqs : OpenDraw(r)
  \/ \E r \in Reqs : OpenRefund(r)
  \/ \E r \in Reqs : OpenPull(r)
  \/ \E r \in Reqs : OpenUpsert(r)
  \/ \E r \in Reqs : OpenExisting(r)
  \/ \E r \in Reqs : OpenUpdate(r)
  \/ \E r \in Reqs : OpenInsert(r)
  \/ \E r \in Reqs : OpenFinal(r)
  \/ \E r \in Reqs, u \in Players, k \in IdKeys \cup {""} : StartSell(r, u, k)
  \/ \E r \in Reqs : SellSelect(r)
  \/ \E r \in Reqs : SellWrite(r)
  \/ \E r \in Reqs : SellCredit(r)
  \/ \E r \in Reqs : SellFinal(r)

Spec == Init /\ [][Next]_vars

\* The same server when no two requests overlap: a request starts only once
\* every earlier one has been answered.
NextSeq ==
  \/ TickSeq
  \/ \E r \in Reqs, u \in Players : Quiet /\ StartMe(r, u)
  \/ \E r \in Reqs : PayRead(r)
  \/ \E r \in Reqs : PayWrite(r)
  \/ \E r \in Reqs : MeSelect(r)
  \/ \E r \in Reqs, u \in Players : Quiet /\ StartOpen(r, u)
  \/ \E r \in Reqs : OpenSelect(r)
  \/ \E r \in Reqs : OpenDebit(r)
  \/ \E r \in Reqs : OpenDraw(r)
  \/ \E r \in Reqs : OpenRefund(r)
  \/ \E r \in Reqs : OpenPull(r)
  \/ \E r \in Reqs : OpenUpsert(r)
  \/ \E r \in Reqs : OpenExisting(r)
  \/ \E r \in Reqs : OpenUpdate(r)
  \/ \E r \in Reqs : OpenInsert(r)
  \/ \E r \in Reqs : OpenFinal(r)
  \/ \E r \in Reqs, u \in Players, k \in IdKeys \cup {""} :
        Quiet /\ StartSell(r, u, k)
  \/ \E r \in Reqs : SellSelect(r)
  \/ \E r \in Reqs : SellWrite(r)
  \/ \E r \in Reqs : SellCredit(r)
  \/ \E r \in Reqs : SellFinal(r)

SpecSeq == Init /\ [][NextSeq]_vars

\* The server from the state it is in once player 1, whose first request
\* came two clock steps after the accounts were created, has been granted
\* one tick and has bought the same card twice: a state Spec reaches with
\* two requests.  The row is what those two statements of /api/open leave.
OwnedCard == CHOOSE c \in Cards : c.name = "Pikachu"
OwnedAt   == T0 + 2 * StepMs
OwnedRow  ==
  MergeRow(NewRow(OwnedCard, rollGrade(1), rollMintForGrade(rollGrade(1), 10),
                  OwnedAt),
           rollGrade(60), rollMintForGrade(rollGrade(60), 10), OwnedAt)

InitOwned ==
  /\ variant \in Variants
  /\ now = OwnedAt
  /\ money = [u \in Players |-> 0]
  /\ lastPay = [u \in Players |->
                  IF u = 1 THEN NewLastOf(T0, TicksOf(T0, OwnedAt))
                  ELSE IF variant = "sqlite" THEN 0 ELSE T0]
  /\ collection = (<<1, IdKeyOf(OwnedCard)>> :> OwnedRow)
  /\ pulls = [u \in Players |->
                IF u = 1
                THEN << PullOf(OwnedCard, rollGrade(1),
                               rollMintForGrade(rollGrade(1), 10), OwnedAt),
                        PullOf(OwnedCard, rollGrade(60),
                               rollMintForGrade(rollGrade(60), 10), OwnedAt) >>
                ELSE <<>>]
  /\ pc = [r \in Reqs |-> "idle"]
  /\ rq = [r \in Reqs |-> NoRq]
  /\ nReq = 0
  /\ granted = [u \in Players |-> IF u = 1 THEN AddOf(TicksOf(T0, OwnedAt))
                                  ELSE 0]
  /\ last0 = [u \in Players |-> IF variant = "sqlite" /\ u = 2 THEN 0 ELSE T0]
  /\ removed = [k \in Players \X IdKeys |-> 0]
  /\ accruedAt = [u \in Players |-> IF u = 1 THEN OwnedAt ELSE 0]
  /\ lot = NoLot
  /\ dc = NoDraw
  /\ friends = <<>>
  /\ fq = NoFq
  /\ queue = NoQueue

\* Purchases and sales from there, overlapping as in Spec.
NextOwned ==
  \/ TickOwned
  \/ \E r \in Reqs : PayRead(r)
  \/ \E r \in Reqs : PayWrite(r)
  \/ \E r \in Reqs, u \in Players : StartOpen(r, u)
  \/ \E r \in Reqs : OpenSelect(r)
  \/ \E r \in Reqs : OpenDebit(r)
  \/ \E r \in Reqs : OpenDraw(r)
  \/ \E r \in Reqs : OpenRefund(r)
  \/ \E r \in Reqs : OpenPull(r)
  \/ \E r \in Reqs : OpenUpsert(r)
  \/ \E r \in Reqs : OpenExisting(r)
  \/ \E r \in Reqs : OpenUpdate(r)
  \/ \E r \in Reqs : OpenInsert(r)
  \/ \E r \in Reqs : OpenFinal(r)
  \/ \E r \in Reqs, u \in Players, k \in IdKeys \cup {""} : StartSell(r, u, k)
  \/ \E r \in Reqs : SellSelect(r)
  \/ \E r \in Reqs : SellWrite(r)
  \/ \E r \in Reqs : SellCredit(r)
  \/ \E r \in Reqs : SellFinal(r)

SpecOwned == InitOwned /\ [][NextOwned]_vars

\* The grading lottery alone, over every hundredth.
NextLottery == \E m \in Draws : Roll(m)

SpecLottery == Init /\ [][NextLottery]_vars

\* One call of drawCard(), under any offline pool, with FORCE_OFFLINE (a
\* setting of the Postgres server only) on or off, the catalog answering
\* each request in any way.
InitDraw ==
  /\ InitStore
  /\ lot = NoLot
  /\ friends = <<>>
  /\ fq = NoFq
  /\ queue = NoQueue
  /\ \E pool \in Pools, force \in BOOLEAN :
       /\ force => variant = "pg"
       /\ dc = [NoDraw EXCEPT !.pc = "start", !.offlineCards = pool,
                              !.FORCE_OFFLINE = force]

NextDraw == DrawFirst \/ DrawList \/ DrawDetail \/ DrawLast

SpecDraw == InitDraw /\ [][NextDraw]_vars

\* One call of runQueue, with any item list and concurrency within the
\* bounds.
InitQueue ==
  /\ InitStore
  /\ lot = NoLot
  /\ dc = NoDraw
  /\ friends = <<>>
  /\ fq = NoFq
  /\ \E items \in ItemLists, concurrency \in 1..MaxConcurrency :
       queue = [NoQueue EXCEPT !.pc = "called", !.items = items,
                               !.concurrency = concurrency,
                               !.handed = [i \in 1..Len(items) |-> 0]]

NextQueue ==
  \/ CallRunQueue
  \/ \E i \in 1..MaxItems : Settle(i)

SpecQueue == InitQueue /\ [][NextQueue]_vars

\* The same, where runQueue runs and every worker call in flight settles.
SpecQueueFair ==
  /\ SpecQueue
  /\ WF_vars(CallRunQueue)
  /\ \A i \in 1..MaxItems : WF_vars(Settle(i))

\* Friend requests against the store in which player 1 owns a card.
NextFriends ==
  \/ TickOwned
  \/ \E u \in Players, code \in FriendCodes : AddFriend(u, code)
  \/ \E u \in Players, code \in FriendCodes : ReadFriendCollection(u, code)

SpecFriends == InitOwned /\ [][NextFriends]_vars

\* ================================================================= claims
User(r) == rq[r].user

\* The composite identity of a stored pull record.
PullKey(p) == IdKeyOf([name |-> p.name, set |-> p.setName, image |-> p.image])

\* The pull records of user u for key k, oldest first.
PullsOf(u, k) == SelectSeq(pulls[u], LAMBDA p : PullKey(p) = k)

\* The row of (u, k) is what merging the pulls in P, in order, gives.
RowMergesPulls(u, k, P) ==
  IF Len(P) = 0
  THEN ~HasRow(u, k)
  ELSE /\ HasRow(u, k)
       /\ LET e == collection[<<u, k>>]
          IN  /\ e.count = Len(P)
              /\ \E i \in 1..Len(P) : e.grade = P[i].grade
              /\ \A i \in 1..Len(P) : e.grade >= P[i].grade
              /\ e.mint = IF \E i \in 1..Len(P) : P[i].mint = 1 THEN 1 ELSE 0
              /\ e.lastAt = P[Len(P)].at
              /\ IdKeyOf([name |-> e.name, set |-> e.setName,
                          image |-> e.image]) = k

\* C1: under any interleaving of purchase, accrual and sell requests, every
\* player's stored balance is >= 0.
C1_BalanceNeverNegative == \A u \in Players : money[u] >= 0

\* C2: a purchase whose drawCard failed ends reported as failed (502) with
\* the debit credited back exactly once: what its statements did to the
\* balance sums to zero; until the refund the debit of 5 stands.
C2_DrawFailureRefunded ==
  \A r \in Reqs :
    rq[r].draw = "throw" =>
      /\ pc[r] \in {"open_refund", "done"}
      /\ pc[r] = "open_refund" => rq[r].net = -COST_ONE /\ rq[r].status = 0
      /\ pc[r] = "done" => rq[r].net = 0 /\ rq[r].status = 502
                           /\ rq[r].npull = 0 /\ ~rq[r].merged

W_C2 ==
  \E r \in Reqs : pc[r] = "done" /\ rq[r].op = "open" /\ rq[r].draw = "throw"

\* C3: every finished purchase is all-or-nothing: a net debit of 5 with one
\* pull record appended and the collection row inserted or merged, or no net
\* debit, no pull record and no change of the collection.
C3_AllOrNothing ==
  \A r \in Reqs :
    (pc[r] = "done" /\ rq[r].op = "open") =>
      \/ rq[r].net = -COST_ONE /\ rq[r].npull = 1 /\ rq[r].merged
      \/ rq[r].net = 0 /\ rq[r].npull = 0 /\ ~rq[r].merged

\* C4 (as amended): for a stored last-accrual timestamp other than 0, once
\* an accrual call has returned, having read the clock at accruedAt, the total
\* granted is 10 x N and the stored timestamp is the first one + N x 5 min
\* (not the clock), N being the whole ticks from the first stored timestamp
\* to accruedAt.
C4_AccrualLossFree ==
  \A u \in Players :
    (last0[u] # 0 /\ accruedAt[u] # 0) =>
      LET N == (accruedAt[u] - last0[u]) \div PAY_EVERY_MS
      IN  /\ granted[u] = N * PAY_AMOUNT
          /\ lastPay[u] = last0[u] + N * PAY_EVERY_MS

\* C4 (as stated): the same for every stored timestamp, 0 included.
C4_AccrualLossFreeAnyStored ==
  \A u \in Players :
    accruedAt[u] # 0 =>
      LET N == (accruedAt[u] - last0[u]) \div PAY_EVERY_MS
      IN  /\ granted[u] = N * PAY_AMOUNT
          /\ lastPay[u] = last0[u] + N * PAY_EVERY_MS

W_C4 ==
  \E u \in Players :
    /\ last0[u] # 0
    /\ granted[u] >= 2 * PAY_AMOUNT
    /\ lastPay[u] < accruedAt[u]

\* C5: an accrual call that reads the clock less than one tick after the
\* stored last-accrual timestamp returns without a write: balance and
\* timestamp are unchanged.
C5_IdempotentWithinTick ==
  [][\A r \in Reqs :
       (/\ pc[r] = "pay_read"
        /\ pc'[r] # "pay_read"
        /\ lastPay[User(r)] # 0
        /\ now - lastPay[User(r)] < PAY_EVERY_MS)
       => /\ pc'[r] = AfterPay(rq[r].op)
          /\ money' = money
          /\ lastPay' = lastPay]_vars

W_C5 ==
  \E r \in Reqs :
    /\ pc[r] \in {"me_select", "open_select"}
    /\ rq[r].ticks = 0
    /\ granted[User(r)] > 0
    /\ lastPay[User(r)] # last0[User(r)]
    /\ now - lastPay[User(r)] < PAY_EVERY_MS

\* C6: accrual is not double-counted under concurrency: the total granted to
\* a player never exceeds 10 x the whole ticks elapsed since the first stored
\* timestamp.
C6_NoDoubleCount ==
  \A u \in Players :
    last0[u] # 0 =>
      granted[u] <= PAY_AMOUNT * ((now - last0[u]) \div PAY_EVERY_MS)

\* C7: without overlapping requests and before any sale of the key, the
\* collection holds for a key exactly what merging the player's pulls of that
\* key gives: no row before the first pull, then one row with count = number
\* of pulls, grade = the highest grade, mint = 1 iff some pull was mint, and
\* lastAt = the timestamp of the last pull.
C7_SequentialMerge ==
  \A u \in Players, k \in IdKeys :
    (Quiet /\ removed[<<u, k>>] = 0) => RowMergesPulls(u, k, PullsOf(u, k))

W_C7 ==
  \E u \in Players, k \in IdKeys :
    /\ Quiet
    /\ removed[<<u, k>>] = 0
    /\ Len(PullsOf(u, k)) = 2
    /\ PullsOf(u, k)[1].grade > PullsOf(u, k)[2].grade
    /\ PullsOf(u, k)[1].mint = 1
    /\ HasRow(u, k)
    /\ collection[<<u, k>>].count = 2

\* C8: under any interleaving of a player's purchases, no merge step fails,
\* and once the player's requests have finished (no copy having been sold)
\* the row of a key counts every pull of that key, with the highest grade and
\* the OR of the mint flags.
C8_ConcurrentMergeAtomic ==
  /\ \A r \in Reqs : pc[r] = "done" => rq[r].status # 500
  /\ \A u \in Players, k \in IdKeys :
       (/\ \A r \in Reqs : Busy(r) => User(r) # u
        /\ removed[<<u, k>>] = 0)
       => RowMergesPulls(u, k, PullsOf(u, k))

\* C9: without overlapping requests, the sale of an owned key deletes the row
\* when its count is 1 and otherwise decrements the count by 1, leaving the
\* other attributes and every other row as they were; then it credits
\* exactly 1 to the seller.
C9_SaleEffect ==
  [][\A r \in Reqs :
       LET pk == <<User(r), rq[r].key>>
       IN  /\ (pc[r] = "sell_write" /\ pc'[r] = "sell_credit") =>
                /\ pk \in DOMAIN collection
                /\ money' = money
                /\ IF collection[pk].count = 1
                   THEN /\ DOMAIN collection' = DOMAIN collection \ {pk}
                        /\ \A x \in DOMAIN collection' :
                             collection'[x] = collection[x]
                   ELSE collection' =
                          [collection EXCEPT ![pk].count = @ - 1]
           /\ (pc[r] = "sell_credit" /\ pc'[r] = "sell_final") =>
                /\ money' = [money EXCEPT ![User(r)] = @ + 1]
                /\ collection' = collection
                /\ rq'[r].net = 1]_vars

W_C9 ==
  \E r \in Reqs :
    /\ pc[r] = "done" /\ rq[r].op = "sell" /\ rq[r].status = 200
    /\ removed[<<User(r), rq[r].key>>] = 1
    /\ HasRow(User(r), rq[r].key)
    /\ collection[<<User(r), rq[r].key>>].count = 1
    /\ Len(PullsOf(User(r), rq[r].key)) = 2

\* C10: a sale of a key for which the player has no collection row (also
\* when another player has one) is answered 404 Not owned at the lookup,
\* and balance, collection and pull history are left as they were.
C10_NotOwned ==
  [][\A r \in Reqs :
       (/\ pc[r] = "sell_select"
        /\ pc'[r] # "sell_select"
        /\ ~HasRow(User(r), rq[r].key))
       => /\ pc'[r] = "done"
          /\ rq'[r].status = 404
          /\ rq'[r].net = 0
          /\ money' = money
          /\ collection' = collection
          /\ pulls' = pulls]_vars

W_C10 ==
  \E r \in Reqs :
    /\ pc[r] = "done" /\ rq[r].op = "sell" /\ rq[r].status = 404
    /\ ~HasRow(User(r), rq[r].key)
    /\ \E v \in Players \ {User(r)} : HasRow(v, rq[r].key)
    /\ money[User(r)] = 0
    /\ pulls[User(r)] = <<>>

\* The state SpecOwned starts from, as Spec reaches it (requests answered).
OwnedReached ==
  /\ Quiet
  /\ now = OwnedAt
  /\ money = [u \in Players |-> 0]
  /\ lastPay[1] = NewLastOf(T0, TicksOf(T0, OwnedAt))
  /\ granted[1] = AddOf(TicksOf(T0, OwnedAt))
  /\ accruedAt[1] = OwnedAt
  /\ DOMAIN collection = {<<1, IdKeyOf(OwnedCard)>>}
  /\ collection[<<1, IdKeyOf(OwnedCard)>>] = OwnedRow
  /\ Len(pulls[1]) = 2 /\ pulls[2] = <<>>
  /\ pulls[1][1].grade = rollGrade(1) /\ pulls[1][2].grade = rollGrade(60)

\* C11: under any interleaving of purchases and sales, every row of the
\* collection has count >= 1.
C11_CountAtLeastOne ==
  \A x \in DOMAIN collection : collection[x].count >= 1

\* C12: for as long as a collection row exists, through purchases that merge
\* into it and sales that decrement it, its grade never decreases and its
\* mint flag never goes back from 1 to 0.
C12_GradeMintMonotone ==
  [][\A x \in DOMAIN collection \cap DOMAIN collection' :
       /\ collection'[x].grade >= collection[x].grade
       /\ collection'[x].mint >= collection[x].mint]_vars

W_C12 ==
  \E u \in Players, k \in IdKeys :
    /\ HasRow(u, k)
    /\ removed[<<u, k>>] = 1
    /\ Len(PullsOf(u, k)) = 2
    /\ PullsOf(u, k)[1].grade = 10 /\ PullsOf(u, k)[1].mint = 1
    /\ PullsOf(u, k)[2].grade < 10 /\ PullsOf(u, k)[2].mint = 0
    /\ collection[<<u, k>>].count = 1
    /\ collection[<<u, k>>].grade = 10
    /\ collection[<<u, k>>].mint = 1

\* C13: rollMintForGrade gives 0 for every grade in 1..9 whatever the draw,
\* and 1 only for grade 10: the grade and mint flag a purchase stores and
\* returns never have mint = 1 with a grade other than 10.
C13_MintOnlyGradeTen ==
  lot.n > 0 =>
    /\ lot.mint \in {0, 1}
    /\ lot.grade \in 1..9 => lot.mint = 0
    /\ lot.mint = 1 => lot.grade = 10

\* A grade below 10 rolled with a draw that gives mint at grade 10.
W_C13 == lot.grade \in 1..9 /\ 3 * lot.m < 100 /\ lot.mint = 0

\* The documented probability of each grade 1..10, in hundredths.
BandWidth == <<3, 6, 9, 12, 18, 18, 14, 10, 8, 2>>

\* The cumulative threshold below grade g: the width of the bands of the
\* grades g..10.
RECURSIVE BandTop(_)
BandTop(g) == IF g > 10 THEN 0 ELSE BandWidth[g] + BandTop(g + 1)

\* C14: rollGrade maps every draw to a grade in 1..10 by cumulative
\* thresholds taken from grade 10 down to grade 1, and over the hundredths
\* 0..99 the number of draws of each grade is its documented probability:
\* 2, 8, 10, 14, 18, 18, 12, 9, 6, 3 for grades 10 down to 1.
C14_GradeBands ==
  /\ lot.n > 0 =>
       /\ lot.grade \in 1..10
       /\ BandTop(lot.grade + 1) <= lot.r
       /\ lot.r < BandTop(lot.grade)
  /\ lot.n = 100 => \A g \in 1..10 : lot.hist[g] = BandWidth[g]

W_C14 == lot.n = 100 /\ lot.hist[10] = 2 /\ lot.hist[1] = 3

\* drawCard() has returned or thrown.
Ended  == dc.pc \in {"returned", "thrown"}
\* Hybrid mode: FORCE_OFFLINE is off.
Hybrid == dc.pc # "off" /\ ~dc.FORCE_OFFLINE
InPool(c) == \E i \in 1..Len(dc.offlineCards) : dc.offlineCards[i] = c

\* C15: in hybrid mode, with a non-empty offline pool and a catalog of which
\* no request succeeded, drawCard ends by returning an entry of the pool and
\* throws nothing.
C15_FallbackReturnsPoolEntry ==
  (Ended /\ Hybrid /\ dc.offlineCards # <<>> /\ dc.oks = 0) =>
    /\ dc.pc = "returned"
    /\ dc.from = "offline"
    /\ InPool(dc.c)

\* C16: in hybrid mode a request that times out or fails at the network
\* level only abandons its try: nothing is thrown out of drawCard before the
\* 6 tries are exhausted and the offline fallback has been attempted.
C16_FailureDoesNotEscape ==
  (Hybrid /\ dc.pc = "thrown") =>
    /\ dc.attempt = MAX_TRIES
    /\ dc.error = "No image (TCGdex)"

C18_ForcedOfflineNoRemote ==
  (dc.pc # "off" /\ dc.FORCE_OFFLINE) =>
    /\ dc.fetches = 0
    /\ dc.pc \in {"start", "returned", "thrown"}
    /\ dc.pc = "returned" =>
         dc.from = "offline" /\ InPool(dc.c) /\ Usable(dc.c)
    /\ dc.pc = "thrown" =>
         /\ dc.error = "Offline only: no cards.json"
         /\ dc.offlineCards = <<>> \/ (InPool(dc.c) /\ ~Usable(dc.c))

\* Forced-offline, a pool with entries, and the pick fell on one without image.
W_C18 ==
  /\ dc.FORCE_OFFLINE /\ dc.pc = "thrown"
  /\ dc.offlineCards # <<>> /\ dc.offlinePicks = 1

\* C19: a purchase that finds, after its accrual, a balance below the cost
\* (5) is answered 400 at once: it debits nothing, calls no drawCard, and
\* leaves balance, pull history and collection as they are.
C19_InsufficientFunds ==
  [][\A r \in Reqs :
       (/\ pc[r] = "open_select"
        /\ pc'[r] # "open_select"
        /\ money[User(r)] < COST_ONE)
       => /\ pc'[r] = "done"
          /\ rq'[r].status = 400
          /\ rq'[r].net = 0 /\ rq'[r].npull = 0 /\ ~rq'[r].merged
          /\ rq'[r].draw = "none"
          /\ money' = money
          /\ pulls' = pulls
          /\ collection' = collection]_vars

\* A purchase rejected after the accrual had granted a tick and two earlier
\* purchases had spent it.
W_C19 ==
  \E r \in Reqs :
    /\ pc[r] = "done" /\ rq[r].op = "open" /\ rq[r].status = 400
    /\ granted[User(r)] = PAY_AMOUNT
    /\ money[User(r)] = 0
    /\ Len(pulls[User(r)]) = 2

\* C20: the read of another player's collection succeeds, with that player's
\* entries, only when a Friend Relation requester -> owner exists, and is
\* answered Forbidden otherwise; an attempt to add oneself as a friend is
\* rejected and no relation is ever stored from a player to itself.
C20_FriendScopedRead ==
  /\ fq.op = "read" =>
       IF <<fq.by, OwnerOf(fq.code)>> \in DOMAIN friends
       THEN /\ fq.result = "ok"
            /\ fq.items = {collection[x] :
                             x \in {y \in DOMAIN collection :
                                      y[1] = OwnerOf(fq.code)}}
       ELSE fq.result = "Forbidden" /\ fq.items = {}
  /\ (fq.op = "add" /\ OwnerOf(fq.code) = fq.by) => fq.result # "ok"
  /\ \A e \in DOMAIN friends : e[1] # e[2]

\* Player 2 reads the entries of player 1, whom it added; player 1 has not
\* added player 2.
W_C20 ==
  /\ fq.op = "read" /\ fq.by = 2 /\ fq.result = "ok"
  /\ fq.items # {}
  /\ DOMAIN friends = {<<2, 1>>}

\* C21: the brief card list is served from a cache: once a list request of
\* a drawCard call has brought the list, the later tries of that call (all
\* within seconds, far inside a freshness window of hours) issue no further
\* list request.
C21_ListServedFromCache == dc.refetches = 0

\* The bounds of the retry loop: at most 6 tries, each with at most one list
\* request and one detail request, and a remote card is returned with an
\* image by the try that obtained it.
BoundedTries ==
  /\ dc.attempt <= MAX_TRIES
  /\ dc.fetches <= 2 * MAX_TRIES
  /\ dc.fetches <= 2 * (dc.attempt + 1)
  /\ dc.pc \in {"list", "detail"} => dc.attempt < MAX_TRIES
  /\ (dc.pc = "returned" /\ dc.from = "remote") =>
       dc.attempt < MAX_TRIES /\ Usable(dc.c) /\ dc.failure = "ok"

\* C22: in hybrid mode drawCard performs at most 6 tries and at most 12
\* upstream requests, stops at the first try that yields a card with a usable
\* image, and otherwise ends by returning an offline card or by throwing
\* "No image (TCGdex)" once both sources are exhausted.
C22_BoundedAndEnds ==
  Hybrid =>
    /\ BoundedTries
    /\ Ended =>
         \/ dc.pc = "returned" /\ dc.from \in {"remote", "offline"}
         \/ /\ dc.pc = "thrown" /\ dc.error = "No image (TCGdex)"
            /\ dc.attempt = MAX_TRIES

\* The purchases past their INSERT INTO pulls.
AfterPull == {"open_upsert", "open_exist", "open_update", "open_insert",
              "open_final"}

\* C23: the pull history is append-only.  Every purchase whose drawCard
\* returned a card appends exactly one record, with the card, grade and mint
\* of that draw, before it does anything else; a purchase whose drawCard
\* threw appends none; and no other step (accrual, sale, deletion of the
\* collection row) adds, removes or changes a record.
C23_PullsAppendOnly ==
  /\ [](\A r \in Reqs :
         /\ pc[r] = "open_pull" => rq[r].draw = "card" /\ rq[r].npull = 0
         /\ pc[r] \in AfterPull => rq[r].draw = "card" /\ rq[r].npull = 1
         /\ pc[r] = "open_refund" => rq[r].draw = "throw" /\ rq[r].npull = 0
         /\ pc[r] = "done" =>
              rq[r].npull = IF rq[r].draw = "card" THEN 1 ELSE 0)
  /\ [][/\ \A r \in Reqs :
            (pc[r] = "open_draw" /\ pc'[r] # "open_draw") =>
              (rq'[r].draw = "card" <=> pc'[r] = "open_pull")
        /\ \A u \in Players :
            IF \E r \in Reqs : /\ pc[r] = "open_pull" /\ pc'[r] # "open_pull"
                               /\ User(r) = u
            THEN \E r \in Reqs :
                   /\ pc[r] = "open_pull" /\ pc'[r] # "open_pull"
                   /\ User(r) = u
                   /\ pulls'[u] = Append(pulls[u],
                        [name |-> rq[r].card.name, setName |-> rq[r].card.set,
                         image |-> rq[r].card.image, grade |-> rq[r].grade,
                         mint |-> rq[r].mint, at |-> rq[r].at])
            ELSE pulls'[u] = pulls[u]]_vars

\* Two sales have deleted the collection row of the card pulled twice, a
\* third purchase has appended its record (a mint one among the three), and
\* the two first records are still those of the two first purchases.
W_C23 ==
  /\ Quiet
  /\ removed[<<1, IdKeyOf(OwnedCard)>>] = 2
  /\ Len(pulls[1]) = 3
  /\ SubSeq(pulls[1], 1, 2) =
       << PullOf(OwnedCard, rollGrade(1),
                 rollMintForGrade(rollGrade(1), 10), OwnedAt),
          PullOf(OwnedCard, rollGrade(60),
                 rollMintForGrade(rollGrade(60), 10), OwnedAt) >>
  /\ \E i \in 1..3 : pulls[1][i].mint = 1
  /\ ~HasRow(1, IdKeyOf(OwnedCard))

\* The copies of the card pulled twice that player 1 still holds.
CopiesLeft ==
  IF HasRow(1, IdKeyOf(OwnedCard))
  THEN collection[<<1, IdKeyOf(OwnedCard)>>].count ELSE 0

\* Since the two purchases, player 1 has only sold: no accrual has granted
\* anything and no pull has been recorded.
OnlySales ==
  /\ Quiet
  /\ granted[1] = AddOf(TicksOf(T0, OwnedAt))
  /\ Len(pulls[1]) = 2

\* C24: under any interleaving of the sales of one key by one player, with
\* no purchase, the total credited by the sales (the balance, which was 0)
\* equals the decrease of the copy count of the entry; a sale that removed no
\* copy is answered 404 Not owned.
C24_CreditEqualsCopiesRemoved ==
  OnlySales => money[1] = OwnedRow.count - CopiesLeft

\* C25: an account whose stored lastPay is 0 is treated by applyPayForUser
\* as last accrued now: the call computes no tick, writes nothing and goes on
\* to the handler's next statement; the stored lastPay stays 0 and the
\* account is granted no accrual income, however much time has elapsed.
C25_ZeroLastPayNeverAccrues ==
  /\ [](\A u \in Players :
         lastPay[u] = 0 =>
           /\ granted[u] = 0
           /\ \A r \in Reqs : User(r) = u => pc[r] # "pay_write")
  /\ [][\A u \in Players : lastPay[u] = 0 => lastPay'[u] = 0]_vars
  /\ [][\A r \in Reqs :
          (/\ pc[r] = "pay_read" /\ pc'[r] # "pay_read"
           /\ lastPay[User(r)] = 0)
          => /\ pc'[r] \in {"me_select", "open_select"}
             /\ money' = money
             /\ lastPay' = lastPay]_vars

\* Two accrual periods after the start, the account migrated with lastPay 0
\* has had its accrual applied and holds nothing, while the account created
\* at the start has been granted two ticks.
W_C25 ==
  /\ variant = "sqlite"
  /\ now - T0 >= 2 * PAY_EVERY_MS
  /\ lastPay[2] = 0 /\ accruedAt[2] = now
  /\ granted[2] = 0 /\ money[2] = 0
  /\ granted[1] = 2 * PAY_AMOUNT
  /\ \E r \in Reqs : pc[r] = "done" /\ User(r) = 2 /\ rq[r].op = "open"
                     /\ rq[r].status = 400

\* C26: provided every worker call settles, runQueue eventually resolves,
\* for the empty item list as for any other; and its result has total =
\* items.length and ok = the number of worker calls that returned a truthy
\* value.
C26_EventuallyResolves ==
  /\ (queue.pc = "called") ~> queue.result.resolved
  /\ [](queue.result.resolved =>
         /\ queue.result.total = Len(queue.items)
         /\ queue.result.ok =
              Cardinality({i \in 1..Len(queue.items) :
                             queue.items[i] = "truthy"}))

\* C27: in runQueue at most `concurrency` worker calls are in flight; the
\* items are handed to workerFn in order, each at most once, and all of them
\* exactly once by the time the promise resolves, also when worker calls
\* throw or reject; resolve is called at most once, and only when every
\* item's worker call has completed.
C27_BoundedExactlyOnce ==
  /\ Cardinality(queue.running) <= queue.concurrency
  /\ Cardinality(queue.running) = queue.active
  /\ \A i \in 1..Len(queue.items) :
       /\ queue.handed[i] = IF i <= queue.idx THEN 1 ELSE 0
       /\ i \in queue.running => queue.handed[i] = 1
  /\ queue.done = queue.idx - queue.active
  /\ queue.resolves <= 1
  /\ queue.resolves = 1 <=> queue.result.resolved
  /\ queue.result.resolved =>
       /\ \A i \in 1..Len(queue.items) : queue.handed[i] = 1
       /\ queue.running = {}
       /\ queue.done = Len(queue.items)

\* Three items, two at a time, have gone through workerFn, one call having
\* thrown at once, one rejected and one returned a truthy value, and the
\* promise has resolved with ok = 1 of 3.
W_C27 ==
  /\ queue.result = [resolved |-> TRUE, ok |-> 1, total |-> 3]
  /\ queue.concurrency = 2
  /\ {queue.items[i] : i \in 1..Len(queue.items)} =
       {"throws", "rejects", "truthy"}

====
